---- MODULE Spec2Model ----
(***************************************************************************)
(* A model of redrock's redshift refinement (py/redrock/fitz.py) and of    *)
(* its target / spectrum data model (py/redrock/targets.py).               *)
(*                                                                         *)
(* Python indices are kept 0-based: At(s, i) reads s[i].  Floating point   *)
(* numbers are modelled by exact rationals [n |-> numerator, d |->         *)
(* denominator] in lowest terms with d > 0.                                *)
(***************************************************************************)
EXTENDS Integers, Sequences, FiniteSets, TLC

VARIABLES
    \* find_minima(x): the argument and the returned index array
    \* (fm_pc: "call" before the call, "done" once it has returned)
    fm_x, fm_ret, fm_pc,
    \* minfit(x, y): the arguments and the returned tuple
    mf_x, mf_y, mf_ret, mf_pc,
    \* fitz(zchi2, redshifts, spectra, template, nminima): the arguments,
    \* the array find_minima returned (order) and the place of the loop in it
    \* (pos, 0-based), the results list, and where the call is (fz_pc: "start",
    \* "loop", "done" = returned, "raised" = left by an exception);
    \* np_nonzero0d is what np.where does with a 0-d condition in the NumPy
    \* of the build: "index0" (it answers (array([0]),)) or "raises";
    \* fz_exc records the exception that left the call (<<>> while none has):
    \* the line that raised it and, for one raised in the loop body, the
    \* refined redshift zmin and what the evaluation of lines 192-210 did
    zchi2, redshifts, nminima, order, pos, results, fz_pc, np_nonzero0d, fz_exc,
    \* one Spectrum object: its attribute dictionary (spectrum), and for the
    \* statements about it the call made last (sp_last: "new", "pack",
    \* "unpack"), the object as it was before that call (sp_before), the five
    \* data fields as they were when the shared storage was filled (sp_first,
    \* <<>> before that) and the number of calls made (sp_calls)
    spectrum, sp_last, sp_before, sp_first, sp_calls,
    \* one Target object: self.spectra (tg_spectra; before construction the
    \* constructor's argument), the constructor's coadd argument (tg_coadd),
    \* where the object is (tg_pc: "construct", "ready"), and the spectra list
    \* as it was before the last compute_coadd (tg_prev, <<>> or <<list>>)
    tg_spectra, tg_coadd, tg_pc, tg_prev,
    \* wavegrids() on the workers: whether the registries share a communicator
    \* (wg_comm), and per worker the local targets (wg_local), self._dwave
    \* (wg_dwave), where the worker is (wg_pc: "idle", "allgather"), what it
    \* has handed to allgather (wg_sent), during which of its calls (wg_exch)
    \* and what its calls have returned (wg_ret)
    wg_comm, wg_local, wg_dwave, wg_pc, wg_sent, wg_exch, wg_ret,
    \* DistTargetsCopy(targets, comm, root) on the workers: the root rank,
    \* whether bcast synchronises (dt_sync), what the root has broadcast so
    \* far (dt_bcasts), and per worker the targets argument (dt_args), where
    \* the constructor is (dt_pc: "start", "bcast_ids", "loop", "bcast_tg",
    \* "done", "raised"), the number of bcast calls entered (dt_entered),
    \* _alltargetids (dt_ids), _proc_targets (dt_proc), _my_targets (dt_mine),
    \* tbuf (dt_tbuf), _my_data (dt_data) and the loop position (dt_k)
    dt_root, dt_sync, dt_bcasts, dt_args, dt_pc, dt_entered, dt_ids, dt_proc,
    dt_mine, dt_tbuf, dt_data, dt_k

vars_fm == <<fm_x, fm_ret, fm_pc>>
vars_mf == <<mf_x, mf_y, mf_ret, mf_pc>>
vars_fz == <<zchi2, redshifts, nminima, order, pos, results, fz_pc, np_nonzero0d,
            fz_exc>>
vars_sp == <<spectrum, sp_last, sp_before, sp_first, sp_calls>>
vars_tg == <<tg_spectra, tg_coadd, tg_pc, tg_prev>>
vars_fitz == <<vars_fm, vars_mf, vars_fz>>
vars_wg == <<wg_comm, wg_local, wg_dwave, wg_pc, wg_sent, wg_exch, wg_ret>>
vars_dt ==
    <<dt_root, dt_sync, dt_bcasts, dt_args, dt_pc, dt_entered, dt_ids, dt_proc,
      dt_mine, dt_tbuf, dt_data, dt_k>>
vars_targets == <<vars_sp, vars_tg, vars_wg, vars_dt>>
vars == <<vars_fitz, vars_targets>>


(***************************************************************************)
(* Bounds of the model.                                                    *)
(***************************************************************************)
\* find_minima: longest argument and largest value in it
MaxLen == 6
MaxVal == 2
\* minfit: sample positions 0..MaxX, up to MaxPts samples; arbitrary sample
\* values 0..MaxY; parabolas a*(x-x0)^2+y0 with a in 1..MaxA, y0 in 1..MaxY0
\* and x0 in -VertexOut..MaxX+VertexOut
MaxX == 3
MaxPts == 4
MaxY == 2
MaxA == 2
MaxY0 == 2
VertexOut == 1
\* fitz: NZ points in the coarse grid, coarse chi2 values 1..MaxChi, nminima
\* in 0..MaxNminima, fine chi2 values 1..MaxFine (and a background above
\* them); redshifts are whole multiples of 1/ZDen
NZ == 4
MaxChi == 2
MaxNminima == 2
MaxFine == 2
ZDen == 10000

(***************************************************************************)
(* Helpers: Python sequences and exact rational arithmetic.                *)
(***************************************************************************)
At(s, i) == s[i + 1]
Last(s) == s[Len(s)]
Abs(i) == IF i < 0 THEN -i ELSE i
Range(s) == {s[i] : i \in 1..Len(s)}

RECURSIVE GCD(_, _)
GCD(a, b) == IF b = 0 THEN a ELSE GCD(b, a % b)

\* the rational n/d (d # 0) in lowest terms
Rat(n, d) ==
    LET g == GCD(Abs(n), Abs(d))
        s == IF d < 0 THEN -1 ELSE 1
    IN  [n |-> s * (n \div g), d |-> s * (d \div g)]
RInt(i) == [n |-> i, d |-> 1]
RAdd(a, b) == Rat(a.n * b.d + b.n * a.d, a.d * b.d)
RMul(a, b) == Rat(a.n * b.n, a.d * b.d)
RDiv(a, b) == Rat(a.n * b.d, a.d * b.n)
RNeg(a) == [n |-> -a.n, d |-> a.d]
RAbs(a) == [n |-> Abs(a.n), d |-> a.d]
RLt(a, b) == a.n * b.d < b.n * a.d
RLe(a, b) == a.n * b.d <= b.n * a.d

\* the ascending sequence of the elements of a finite set of integers
RECURSIVE SortedSeq(_)
SortedSeq(S) ==
    IF S = {} THEN <<>>
    ELSE LET m == CHOOSE e \in S : \A f \in S : e <= f
         IN  <<m>> \o SortedSeq(S \ {m})

RECURSIVE Pow(_, _)
Pow(b, p) == IF p = 0 THEN 1 ELSE b * Pow(b, p - 1)

RECURSIVE SumOver(_, _)
SumOver(f, S) ==
    IF S = {} THEN 0
    ELSE LET e == CHOOSE e \in S : TRUE IN f[e] + SumOver(f, S \ {e})

(***************************************************************************)
(* zwarning.ZWarningMask: a flag word is modelled by the set of the names  *)
(* of its set bits, so that | is \cup and 0 is {}.                         *)
(***************************************************************************)
BAD_MINFIT == "BAD_MINFIT"
Z_FITLIMIT == "Z_FITLIMIT"

(***************************************************************************)
(* find_minima (fitz.py 44-65)                                             *)
(***************************************************************************)
\* np.r_[True, x[1:]<=x[:-1]]: entry i (0-based) of the left mask
LeftMask(x, i) == IF i = 0 THEN TRUE ELSE At(x, i) <= At(x, i - 1)
\* np.r_[x[:-1]<=x[1:], True]: entry i (0-based) of the right mask
RightMask(x, i) == IF i = Len(x) - 1 THEN TRUE ELSE At(x, i) <= At(x, i + 1)

\* a plausible slip: strict comparisons
MinimaIdxStrict(x) ==
    {i \in 0..(Len(x) - 1) :
        /\ (i = 0 \/ At(x, i) < At(x, i - 1))
        /\ (i = Len(x) - 1 \/ At(x, i) < At(x, i + 1))}
\* ii = np.where(left & right)[0], as the set of its entries
MinimaIdx(x) == {i \in 0..(Len(x) - 1) : LeftMask(x, i) /\ RightMask(x, i)}

\* ii[np.argsort(x[ii])]: the arrangements of the index set S in which the
\* values of x do not decrease.  np.argsort's default sort is not stable, so
\* the order of indices holding equal values is any.
RECURSIVE Argsorted(_, _)
Argsorted(x, S) ==
    IF S = {} THEN {<<>>}
    ELSE UNION {{<<e>> \o p : p \in Argsorted(x, S \ {e})} :
                e \in {e \in S : \A f \in S : At(x, e) <= At(x, f)}}

\* a plausible slip: the indices are returned in index order, as np.where
\* gives them
find_minima_by_index(x) == {SortedSeq(MinimaIdx(x))}
\* the arrays find_minima(x) can return
find_minima(x) == Argsorted(x, MinimaIdx(x))

FmInputs == UNION {[1..n -> 1..MaxVal] : n \in 1..MaxLen}

FmInit ==
    /\ fm_x \in FmInputs
    /\ fm_ret = <<>>
    /\ fm_pc = "call"

FmCall ==
    /\ fm_pc = "call"
    /\ fm_ret' \in find_minima(fm_x)
    /\ fm_pc' = "done"
    /\ UNCHANGED <<fm_x, vars_mf, vars_fz, vars_targets>>

(***************************************************************************)
(* minfit (fitz.py 68-109)                                                 *)
(***************************************************************************)
SeqMin(s) == CHOOSE m \in Range(s) : \A v \in Range(s) : m <= v
SeqMax(s) == CHOOSE m \in Range(s) : \A v \in Range(s) : m >= v

\* sum over the samples of u^p * y^q, u the sample position minus x[0]
PowSum(x, y, p, q) ==
    SumOver([i \in 1..Len(x) |->
                Pow(x[i] - x[1], p) * (IF q = 0 THEN 1 ELSE y[i])], 1..Len(x))

Det3(m) ==
      m[1][1] * (m[2][2] * m[3][3] - m[2][3] * m[3][2])
    - m[1][2] * (m[2][1] * m[3][3] - m[2][3] * m[3][1])
    + m[1][3] * (m[2][1] * m[3][2] - m[2][2] * m[3][1])

\* np.polyfit(x, y, 2) for integer samples at three or more distinct
\* positions: the least-squares solution of the normal equations, by Cramer's
\* rule, in the coordinate u = x - x[0] (the least-squares parabola does not
\* depend on the origin; the shift keeps the sums small).  The result is
\* <<a, b, c>> with y = a*u^2 + b*u + c.
PolyfitShifted(x, y) ==
    LET S(p) == PowSum(x, y, p, 0)
        T(p) == PowSum(x, y, p, 1)
        D  == Det3(<< <<S(4), S(3), S(2)>>, <<S(3), S(2), S(1)>>, <<S(2), S(1), S(0)>> >>)
        Da == Det3(<< <<T(2), S(3), S(2)>>, <<T(1), S(2), S(1)>>, <<T(0), S(1), S(0)>> >>)
        Db == Det3(<< <<S(4), T(2), S(2)>>, <<S(3), T(1), S(1)>>, <<S(2), T(0), S(0)>> >>)
        Dc == Det3(<< <<S(4), S(3), T(2)>>, <<S(3), S(2), T(1)>>, <<S(2), S(1), T(0)>> >>)
    IN  <<Rat(Da, D), Rat(Db, D), Rat(Dc, D)>>

\* xerr = 1/sqrt(|a|) is carried as its sign and its square
XErr(a) == [sgn |-> 1, sq |-> RDiv(RInt(1), RAbs(a))]

\* return (-1,-1,-1,ZW.BAD_MINFIT)
MinfitFail ==
    [x0 |-> RInt(-1), xerr |-> [sgn |-> -1, sq |-> RInt(1)], y0 |-> RInt(-1),
     zwarn |-> {BAD_MINFIT}]

\* zwarn of lines 97-107 for the parabola with leading coefficient a and
\* vertex (x0, y0) fitted to samples at positions x
MinfitFlags(x, a, x0, y0) ==
    (IF RLe(x0, RInt(SeqMin(x))) \/ RLe(RInt(SeqMax(x)), x0) THEN {BAD_MINFIT} ELSE {})
    \cup (IF RLe(y0, RInt(0)) THEN {BAD_MINFIT} ELSE {})
    \cup (IF a.n > 0 THEN {} ELSE {BAD_MINFIT})

\* a plausible slip: the bracket test of line 98 is left out
MinfitResultNoBracket(x, a, x0, y0) ==
    [x0 |-> x0, xerr |-> XErr(a), y0 |-> y0,
     zwarn |-> (IF RLe(y0, RInt(0)) THEN {BAD_MINFIT} ELSE {})
               \cup (IF a.n > 0 THEN {} ELSE {BAD_MINFIT})]
\* line 109: return (x0, xerr, y0, zwarn)
MinfitResult(x, a, x0, y0) ==
    [x0 |-> x0, xerr |-> XErr(a), y0 |-> y0, zwarn |-> MinfitFlags(x, a, x0, y0)]

\* lines 90-109, for the coefficients a, b, c of y = a*u^2 + b*u + c in
\* u = x - x[0]: x0 = -b/(2a) (moved back from u to x), y0 = -(b**2)/(4a) + c
MinfitFrom(x, a, b, c) ==
    IF a.n = 0 THEN MinfitFail
    ELSE MinfitResult(x, a,
                      RAdd(RInt(x[1]), RDiv(RNeg(b), RMul(RInt(2), a))),
                      RAdd(RNeg(RDiv(RMul(b, b), RMul(RInt(4), a))), c))

MinfitAbc(x, abc) == MinfitFrom(x, abc[1], abc[2], abc[3])

\* minfit(x, y) = (x0, xerr, y0, zwarn).  With three or more distinct sample
\* positions np.polyfit does not fail.
minfit(x, y) ==
    IF Len(x) < 3 THEN MinfitFail ELSE MinfitAbc(x, PolyfitShifted(x, y))

\* sample positions: the ascending arrangements of the subsets of 0..MaxX
\* with 2..MaxPts elements
MfPositions ==
    {SortedSeq(S) : S \in {S \in SUBSET (0..MaxX) :
                            Cardinality(S) >= 2 /\ Cardinality(S) <= MaxPts}}

Parabola(a, x0, y0, x) == [i \in 1..Len(x) |-> a * (x[i] - x0) * (x[i] - x0) + y0]

MfVertices == (0 - VertexOut)..(MaxX + VertexOut)

MfInputs ==
    {<<x, y>> : x \in MfPositions, y \in UNION {[1..n -> 0..MaxY] : n \in 2..MaxPts}}
    \cup
    UNION {{<<x, Parabola(a, x0, y0, x)>> : x \in MfPositions} :
           a \in 1..MaxA, x0 \in MfVertices, y0 \in 1..MaxY0}

MfInit ==
    /\ \E in \in {in \in MfInputs : Len(in[1]) = Len(in[2])} :
          mf_x = in[1] /\ mf_y = in[2]
    /\ mf_ret = MinfitFail
    /\ mf_pc = "call"

MfCall ==
    /\ mf_pc = "call"
    /\ mf_ret' = minfit(mf_x, mf_y)
    /\ mf_pc' = "done"
    /\ UNCHANGED <<mf_x, mf_y, vars_fm, vars_fz, vars_targets>>

(***************************************************************************)
(* get_dv (fitz.py 26-41) and the test against constants.max_velo_diff     *)
(***************************************************************************)
max_velo_diff == 1000
\* scipy.constants.speed_of_light, in m/s
speed_of_light == 299792458

\* c*n < k*m for naturals n, m, with k = 1000*1000 and c < 1000*k, computed
\* without forming products beyond 2^31
MulLess(c, n, k, m) ==
    LET h == m - (c \div k) * n
        r == c % k
        h2 == (k \div 1000) * h - (r \div 1000) * n
    IN  IF h <= 0 THEN FALSE
        ELSE IF h >= n THEN TRUE
        ELSE IF h2 <= 0 THEN FALSE
        ELSE IF h2 >= n THEN TRUE
        ELSE (r % 1000) * n < 1000 * h2

\* np.abs(get_dv(z, zref)) < constants.max_velo_diff for redshifts z, zref
\* given in units of 1/ZDen:
\*   |c*(z - zref)/(1 + zref)| = c*|z.n*zref.d - zref.n*z.d| / (z.d*|zref.d*ZDen + zref.n|)
\* with c = speed_of_light/1000 km/s
DvBelow(z, zref) ==
    MulLess(speed_of_light, Abs(z.n * zref.d - zref.n * z.d),
            1000 * max_velo_diff, z.d * Abs(zref.d * ZDen + zref.n))

\* zprev = [tmp['z'] for tmp in results]; np.any(np.abs(dv) < max_velo_diff)
Collides(z, res) == \E k \in 1..Len(res) : DvBelow(z, res[k].z)

(***************************************************************************)
(* fitz (fitz.py 112-258)                                                  *)
(***************************************************************************)
\* np.linspace(lo, hi, 15)
NFine == 15
\* template.nbasis
NBasis == 2

\* the coarse grid: NZ redshifts one cell apart, a cell being NFine-1 units
\* so that the fine grid over one or two cells falls on whole units
ZStep == NFine - 1
Grid == [k \in 1..NZ |-> (k - 1) * ZStep]

\* zz = np.linspace(redshifts[ilo], redshifts[ihi], 15) around coarse
\* minimum imin, ilo = max(0, imin-1), ihi = min(imin+1, len(zchi2)-1)
Max2(a, b) == IF a >= b THEN a ELSE b
Min2(a, b) == IF a <= b THEN a ELSE b
FineGrid(zs, imin) ==
    LET lo == At(zs, Max2(0, imin - 1))
        hi == At(zs, Min2(imin + 1, Len(zs) - 1))
    IN  [i \in 1..NFine |-> lo + ((i - 1) * (hi - lo)) \div (NFine - 1)]

\* What calc_zchi2_one (zscan, outside this file) can answer over the fine
\* grid: chi2 curves that are FineHigh everywhere but at three neighbouring
\* samples around index p, which hold l, m, r.
FineHigh == MaxFine + 2
FinePos == {0, 1, (NFine - 1) \div 2, NFine - 1}
FineCurve(p, l, m, r) ==
    [i \in 1..NFine |->
        IF i - 1 = p - 1 THEN l
        ELSE IF i - 1 = p THEN m
        ELSE IF i - 1 = p + 1 THEN r
        ELSE FineHigh]
FineCurves ==
    {FineCurve(p, l, m, r) : p \in FinePos, l \in 1..MaxFine, m \in 1..MaxFine,
                             r \in 1..MaxFine}
\* the coefficients calc_zchi2_one answers
CalcCoeff == [i \in 1..NBasis |-> 1]

\* np.argmin: the first index (0-based) holding the smallest value
Argmin(s) ==
    CHOOSE i \in 0..(Len(s) - 1) :
        /\ \A j \in 0..(Len(s) - 1) : At(s, i) <= At(s, j)
        /\ \A j \in 0..(i - 1) : At(s, j) > At(s, i)

\* lines 187-189: the parabola through the three samples around the minimum
\* of the fine scan.  minfit works on the redshifts in units of 1/ZDen: its
\* failure value -1 is the redshift -1, that is -ZDen units.
InRedshiftUnits(r) == IF r.xerr.sgn = -1 THEN [r EXCEPT !.x0 = RInt(-ZDen)] ELSE r
FineFitAt(zz, zzchi2, i) ==
    InRedshiftUnits(minfit(SubSeq(zz, i, i + 2), SubSeq(zzchi2, i, i + 2)))
FineFit(zz, zzchi2) ==
    FineFitAt(zz, zzchi2, Min2(Max2(Argmin(zzchi2), 1), Len(zz) - 2))

\* line 212: zmin<redshifts[0] or redshifts[-1]<zmin
BeyondGrid(zmin, zs) == RLt(zmin, RInt(At(zs, 0))) \/ RLt(RInt(Last(zs)), zmin)
\* lines 225, 227: z < redshifts[1] or z > redshifts[-2]
NearGridEdge(z, zs) ==
    RLt(z, RInt(At(zs, 1))) \/ RLt(RInt(At(zs, Len(zs) - 2)), z)
\* line 231: zbest < zz[0] or zbest > zz[-1]
OutsideFine(z, zz) == RLt(z, RInt(At(zz, 0))) \/ RLt(RInt(Last(zz)), z)

\* line 233: imin = np.where(zbest == np.min(zbest))[0][0].  zbest is one
\* number, so the condition is the 0-d True and the index found is 0
\* whatever the scan holds (where np.where accepts a 0-d condition).
FallbackIndex(zbest, zzchi2) == 0

\* zwarn after lines 211-232 for the refined redshift zmin
RefineFlags(zs, zz, zmin, w0, ev) ==
    w0
    \cup (IF ev = "ValueError" /\ BeyondGrid(zmin, zs) THEN {Z_FITLIMIT, BAD_MINFIT} ELSE {})
    \cup (IF NearGridEdge(zmin, zs) THEN {Z_FITLIMIT} ELSE {})
    \cup (IF OutsideFine(zmin, zz) THEN {BAD_MINFIT} ELSE {})

\* The candidate of lines 244-246 for coarse minimum imin, fine grid zz with
\* chi2 curve zzchi2, the answer fit of minfit and the outcome ev of the
\* final coefficient evaluation ("ok" or "ValueError"); out tells whether
\* the fallback of lines 231-235 is taken and k is the index it picks.
\* Beside the fields of the result row the candidate records the coarse
\* minimum it was refined from (imin), the redshift minfit returned (zmin),
\* whether the fallback was taken, and the redshifts the final evaluation
\* used for the template (rebin_z), for the transmission fraction (T_z) and
\* for the rest-frame wavelengths (waveRF_z): lines 192-194 use zmin, lines
\* 199 and 203 use the z and the tmp_waveRF left by the last pass of the
\* fine scan.
Candidate(zs, imin, zz, zzchi2, fit, ev, out, k) ==
    [z |-> IF out THEN RInt(At(zz, k)) ELSE fit.x0,
     zerr |-> fit.xerr,
     zwarn |-> RefineFlags(zs, zz, fit.x0, fit.zwarn, ev),
     chi2 |-> IF out THEN RInt(At(zzchi2, k)) ELSE fit.y0,
     zz |-> zz, zzchi2 |-> zzchi2,
     coeff |-> IF ev = "ValueError" THEN [i \in 1..NBasis |-> 0] ELSE CalcCoeff,
     imin |-> imin, zmin |-> fit.x0, fallback |-> out, ev |-> ev,
     rebin_z |-> fit.x0, T_z |-> RInt(Last(zz)), waveRF_z |-> RInt(Last(zz))]

\* a plausible slip: candidates are de-duplicated on the coarse grid only
FineCollidesNever(cand, res) == FALSE
\* lines 237-242: the stored redshift zbest of the candidate against the
\* redshifts stored in the results
FineCollides(cand, res) == Collides(cand.z, res)

\* what becomes of the pass: "raise" (lines 219 and, where np.where rejects a
\* 0-d condition, 233), "skip" (line 242) or "append" (line 244)
Outcome(zs, res, cand, ev, where0d) ==
    [cand |-> cand,
     line |-> IF ev = "ValueError" /\ ~BeyondGrid(cand.zmin, zs) THEN 219 ELSE 233,
     what |-> IF ev = "ValueError" /\ ~BeyondGrid(cand.zmin, zs) THEN "raise"
              ELSE IF cand.fallback /\ where0d = "raises" THEN "raise"
              ELSE IF FineCollides(cand, res) THEN "skip"
              ELSE "append"]

RefineFit(zs, res, imin, zz, zzchi2, fit, ev, where0d) ==
    Outcome(zs, res,
            Candidate(zs, imin, zz, zzchi2, fit, ev, OutsideFine(fit.x0, zz),
                      FallbackIndex(fit.x0, zzchi2)),
            ev, where0d)

RefineGrid(zs, res, imin, zz, zzchi2, ev, where0d) ==
    RefineFit(zs, res, imin, zz, zzchi2, FineFit(zz, zzchi2), ev, where0d)

\* one pass of the loop body from line 155 on
Refine(zs, res, imin, zzchi2, ev, where0d) ==
    RefineGrid(zs, res, imin, FineGrid(zs, imin), zzchi2, ev, where0d)

\* lines 249-250: the arrangements of the results in which chi2 does not
\* decrease (np.argsort: rows of equal chi2 in any order)
RECURSIVE SortedByChi2(_, _)
SortedByChi2(res, S) ==
    IF S = {} THEN {<<>>}
    ELSE UNION {{<<res[e]>> \o p : p \in SortedByChi2(res, S \ {e})} :
                e \in {e \in S : \A f \in S : RLe(res[e].chi2, res[f].chi2)}}

\* a plausible slip: the results are returned in the order of acceptance
SortResultsNot(res) == {res}
SortResults(res) == SortedByChi2(res, 1..Len(res))

FzInit ==
    /\ zchi2 \in [1..NZ -> 1..MaxChi]
    /\ redshifts = Grid
    /\ nminima \in 0..MaxNminima
    /\ np_nonzero0d \in {"index0", "raises"}
    /\ order = <<>>
    /\ pos = 0
    /\ results = <<>>
    /\ fz_pc = "start"
    /\ fz_exc = <<>>

\* lines 130-144: up to the loop; find_minima(zchi2) is evaluated once
FitzStart ==
    /\ fz_pc = "start"
    /\ Len(zchi2) = Len(redshifts)
    /\ order' \in find_minima(zchi2)
    /\ fz_pc' = "loop"
    /\ UNCHANGED <<zchi2, redshifts, nminima, pos, results, np_nonzero0d, fz_exc>>
    /\ UNCHANGED <<vars_fm, vars_mf, vars_targets>>

InLoop == fz_pc = "loop" /\ pos < Len(order) /\ Len(results) # nminima

\* a plausible slip: the coarse pass is left to the pass on the refined redshift
CoarseCollidesNever(zs, imin, res) == FALSE
\* lines 150-152: the coarse-grid redshift of minimum imin against the
\* redshifts stored in the results
CoarseCollides(zs, imin, res) == Collides(RInt(At(zs, imin)), res)

\* lines 148-153: the coarse minimum is too close to an accepted candidate
FitzSkipCoarse ==
    /\ InLoop
    /\ CoarseCollides(redshifts, At(order, pos), results)
    /\ pos' = pos + 1
    /\ UNCHANGED <<zchi2, redshifts, nminima, order, results, fz_pc, np_nonzero0d,
                   fz_exc>>
    /\ UNCHANGED <<vars_fm, vars_mf, vars_targets>>

FitzApply(r) ==
    /\ results' = IF r.what = "append" THEN Append(results, r.cand) ELSE results
    /\ pos' = IF r.what = "raise" THEN pos ELSE pos + 1
    /\ fz_pc' = IF r.what = "raise" THEN "raised" ELSE fz_pc
    /\ fz_exc' = IF r.what = "raise"
                 THEN <<[line |-> r.line, zmin |-> r.cand.zmin, ev |-> r.cand.ev]>>
                 ELSE fz_exc

\* lines 155-246: the coarse minimum is refined, and the candidate is
\* appended, skipped (line 242), or the call is left by an exception
FitzRefine ==
    /\ InLoop
    /\ ~CoarseCollides(redshifts, At(order, pos), results)
    /\ \E zzchi2 \in FineCurves, ev \in {"ok", "ValueError"} :
          FitzApply(Refine(redshifts, results, At(order, pos), zzchi2, ev, np_nonzero0d))
    /\ UNCHANGED <<zchi2, redshifts, nminima, order, np_nonzero0d>>
    /\ UNCHANGED <<vars_fm, vars_mf, vars_targets>>

\* lines 145-146 and 248-258: the loop ends; the results are sorted and
\* returned, unless there are none (assert len(results) > 0)
FitzReturn ==
    /\ fz_pc = "loop"
    /\ ~InLoop
    /\ results' \in SortResults(results)
    /\ fz_pc' = IF Len(results) > 0 THEN "done" ELSE "raised"
    /\ fz_exc' = IF Len(results) > 0 THEN fz_exc ELSE <<[line |-> 256]>>
    /\ UNCHANGED <<zchi2, redshifts, nminima, order, pos, np_nonzero0d>>
    /\ UNCHANGED <<vars_fm, vars_mf, vars_targets>>

FzNext ==
    \/ FitzStart
    \/ FitzSkipCoarse
    \/ FitzRefine
    \/ FitzReturn

(***************************************************************************)
(* Spectrum (targets.py 18-91).  An object is its attribute dictionary, a  *)
(* function from attribute names to values: del removes a name from its    *)
(* domain.  None is <<>> and a present value v is <<v>> for _mpshmem.      *)
(* flux, ivar and the resolution data are rationals, wave is integer.      *)
(***************************************************************************)
SetAttr(o, k, v) == [a \in DOMAIN o \cup {k} |-> IF a = k THEN v ELSE o[a]]
DelAttrs(o, ks) == [a \in DOMAIN o \ ks |-> o[a]]

\* line 39: hash((len(wave), wave[0], wave[1], wave[-2], wave[-1])); the hash
\* of the tuple is modelled by the tuple
WaveHash(wave) ==
    <<Len(wave), At(wave, 0), At(wave, 1),
      At(wave, Len(wave) - 2), At(wave, Len(wave) - 1)>>

\* scipy.sparse.dia_matrix((data, offsets), shape): data[k][j] is the entry
\* of column j (0-based j, At) on the diagonal offsets[k], row j - offsets[k]
dia_matrix(data, offsets, shape) ==
    [data |-> data, offsets |-> offsets, shape |-> shape]
\* scipy.sparse.csr_matrix((data, indices, indptr), shape)
csr_matrix(data, indices, indptr, shape) ==
    [data |-> data, indices |-> indices, indptr |-> indptr, shape |-> shape]

IsZero(r) == r.n = 0

\* the entry (i, j), 0-based, of a matrix in diagonal format
Entry(R, i, j) ==
    LET ks == {k \in 1..Len(R.offsets) : R.offsets[k] = j - i}
    IN  IF ks = {} THEN RInt(0) ELSE At(R.data[CHOOSE k \in ks : TRUE], j)

\* the columns of row i that hold a nonzero entry
RowCols(R, i) == {j \in 0..(R.shape[2] - 1) : ~IsZero(Entry(R, i, j))}

\* the <<column, value>> pairs of rows 0..i-1, row after row, columns ascending
\* the <<column, value>> pairs of row i, columns ascending
RowEntries(R, i) ==
    LET cols == SortedSeq(RowCols(R, i))
    IN  [k \in 1..Len(cols) |-> <<cols[k], Entry(R, i, cols[k])>>]

\* the <<column, value>> pairs of rows 0..i-1, row after row
RECURSIVE CsrEntries(_, _)
CsrEntries(R, i) ==
    IF i = 0 THEN <<>> ELSE CsrEntries(R, i - 1) \o RowEntries(R, i - 1)

\* the csr_matrix of the entries e, with row i ending after ends[i] of them
CsrOf(e, ends, shape) ==
    csr_matrix([k \in 1..Len(e) |-> e[k][2]], [k \in 1..Len(e) |-> e[k][1]],
               ends, shape)

\* R.tocsr(): the nonzero entries in compressed-row form
tocsr(R) ==
    CsrOf(CsrEntries(R, R.shape[1]),
          [i \in 1..(R.shape[1] + 1) |-> Len(CsrEntries(R, i - 1))],
          R.shape)

\* Spectrum.__init__ (lines 30-39)
Spectrum(wave, flux, ivar, R, Rcsr) ==
    [nwave |-> Len(wave), wave |-> wave, flux |-> flux, ivar |-> ivar,
     R |-> R, Rcsr |-> Rcsr, _mpshared |-> FALSE, _mpshmem |-> <<>>,
     wavehash |-> WaveHash(wave)]

\* the attributes that sharedmem_pack deletes (lines 58-62)
DataFields == {"wave", "flux", "ivar", "R", "Rcsr"}

\* mpsharedmem.fromarray / mpsharedmem.toarray: a block of shared storage
\* that holds a copy of the array, and the array read back from it
fromarray(a) == [shared |-> a]
toarray(m) == m.shared

\* lines 46-56: the dictionary kept in _mpshmem
PackedDict(s) ==
    [k \in {"wave", "flux", "ivar", "R.data", "R.offsets", "R.shape",
            "Rcsr.indices", "Rcsr.indptr", "Rcsr.data", "Rcsr.shape"} |->
        CASE k = "wave" -> fromarray(s.wave)
          [] k = "flux" -> fromarray(s.flux)
          [] k = "ivar" -> fromarray(s.ivar)
          [] k = "R.data" -> fromarray(s.R.data)
          [] k = "R.offsets" -> s.R.offsets
          [] k = "R.shape" -> s.R.shape
          [] k = "Rcsr.indices" -> fromarray(s.Rcsr.indices)
          [] k = "Rcsr.indptr" -> fromarray(s.Rcsr.indptr)
          [] k = "Rcsr.data" -> fromarray(s.Rcsr.data)
          [] k = "Rcsr.shape" -> s.Rcsr.shape]

\* lines 45-56: the shared storage is filled only when there is none yet
FillShared(s) ==
    IF s._mpshmem = <<>> THEN SetAttr(s, "_mpshmem", <<PackedDict(s)>>) ELSE s

\* sharedmem_pack (lines 41-66)
sharedmem_pack(s) ==
    IF ~s._mpshared
    THEN SetAttr(DelAttrs(FillShared(s), DataFields), "_mpshared", TRUE)
    ELSE s

\* lines 76-80
DiaFromShared(m) ==
    dia_matrix(toarray(m["R.data"]), m["R.offsets"], m["R.shape"])

\* a slip: the index arrays handed to csr_matrix in the other order
CsrFromSharedSwapped(m) ==
    csr_matrix(toarray(m["Rcsr.data"]), toarray(m["Rcsr.indptr"]),
               toarray(m["Rcsr.indices"]), m["Rcsr.shape"])

\* lines 82-88
CsrFromShared(m) ==
    csr_matrix(toarray(m["Rcsr.data"]), toarray(m["Rcsr.indices"]),
               toarray(m["Rcsr.indptr"]), m["Rcsr.shape"])

\* lines 72-88: the five fields rebuilt from the dictionary in _mpshmem
Unpacked(s, m) ==
    [a \in DOMAIN s \cup DataFields |->
        CASE a = "wave" -> toarray(m["wave"])
          [] a = "flux" -> toarray(m["flux"])
          [] a = "ivar" -> toarray(m["ivar"])
          [] a = "R" -> DiaFromShared(m)
          [] a = "Rcsr" -> CsrFromShared(m)
          [] OTHER -> s[a]]

\* sharedmem_unpack (lines 68-91)
sharedmem_unpack(s) ==
    IF s._mpshared
    THEN SetAttr(Unpacked(s, s._mpshmem[1]), "_mpshared", FALSE)
    ELSE s

\* The spectra the model constructs: a wavelength grid, flux and inverse
\* variance per pixel, and a resolution matrix of the main diagonal only,
\* passed in both formats as the callers of Spectrum do (Rcsr = R.tocsr()).
WaveGrids == {<<1, 2>>, <<1, 3>>}
FluxValues == {0, 1}
IvarValues == {0, 1}
ResValues == {0, 1}
\* calls made on the one Spectrum object
MaxSpCalls == 4

RatArrays(n, V) == [1..n -> {RInt(v) : v \in V}]
Diagonal(d) == dia_matrix(<<d>>, <<0>>, <<Len(d), Len(d)>>)

SpectraOn(w, Res) ==
    {Spectrum(w, f, iv, Diagonal(d), tocsr(Diagonal(d))) :
        f \in RatArrays(Len(w), FluxValues),
        iv \in RatArrays(Len(w), IvarValues), d \in RatArrays(Len(w), Res)}
SpectraWith(Res) == UNION {SpectraOn(w, Res) : w \in WaveGrids}

SpInit ==
    /\ spectrum \in SpectraWith(ResValues)
    /\ sp_last = "new"
    /\ sp_before = spectrum
    /\ sp_first = <<>>
    /\ sp_calls = 0

\* the data fields at the moment the shared storage is filled
FirstPacked(s) ==
    IF ~s._mpshared /\ s._mpshmem = <<>>
    THEN <<[a \in DataFields |-> s[a]]>>
    ELSE sp_first

SpPack ==
    /\ sp_last # "idle"
    /\ sp_calls < MaxSpCalls
    /\ spectrum' = sharedmem_pack(spectrum)
    /\ sp_first' = FirstPacked(spectrum)
    /\ sp_before' = spectrum
    /\ sp_last' = "pack"
    /\ sp_calls' = sp_calls + 1
    /\ UNCHANGED <<vars_fitz, vars_tg, vars_wg, vars_dt>>

SpUnpack ==
    /\ sp_last # "idle"
    /\ sp_calls < MaxSpCalls
    /\ spectrum' = sharedmem_unpack(spectrum)
    /\ sp_before' = spectrum
    /\ sp_last' = "unpack"
    /\ sp_calls' = sp_calls + 1
    /\ UNCHANGED <<sp_first, vars_fitz, vars_tg, vars_wg, vars_dt>>

SpNext == SpPack \/ SpUnpack

(***************************************************************************)
(* Target and Target.compute_coadd (targets.py 94-160)                     *)
(***************************************************************************)
\* spectra in the list handed to Target
MaxSpec == 2

RECURSIVE RSum(_)
RSum(s) == IF s = <<>> THEN RInt(0) ELSE RAdd(Head(s), RSum(Tail(s)))

\* line 122: set([s.wavehash for s in self.spectra])
Hashes(spectra) == {spectra[k].wavehash : k \in 1..Len(spectra)}
\* lines 129-130: the spectra of one wavehash, in list order
Group(spectra, key) == SelectSeq(spectra, LAMBDA s : s.wavehash = key)

\* lines 134, 142: unweightedflux at pixel p (1-based p)
UnweightedFlux(g, p) == RSum([k \in 1..Len(g) |-> g[k].flux[p]])
\* lines 135, 143: weightedflux
WeightedFlux(g, p) ==
    RSum([k \in 1..Len(g) |-> RMul(g[k].flux[p], g[k].ivar[p])])
\* lines 136, 144: weights
Weights(g, p) == RSum([k \in 1..Len(g) |-> g[k].ivar[p]])
\* lines 138-139, 145-146: weightedR = sum of W * s.R, entry (i, j) 0-based
WeightedR(g, i, j) ==
    RSum([k \in 1..Len(g) |-> RMul(At(g[k].ivar, i), Entry(g[k].R, i, j))])
\* line 148
IsBad(g, p) == IsZero(Weights(g, p))
\* weights + isbad (lines 149, 151)
WeightsOrOne(g, p) ==
    RAdd(Weights(g, p), RInt(IF IsBad(g, p) THEN 1 ELSE 0))

\* a slip: line 150 left out
CoaddFluxNoFallback(g, p) == RDiv(WeightedFlux(g, p), WeightsOrOne(g, p))

\* lines 149-150
CoaddFlux(g, p) ==
    IF IsBad(g, p)
    THEN RDiv(UnweightedFlux(g, p), RInt(Len(g)))
    ELSE RDiv(WeightedFlux(g, p), WeightsOrOne(g, p))

\* lines 151-153: Winv * weightedR, entry (i, j) 0-based
CoaddREntry(g, i, j) == RDiv(WeightedR(g, i, j), WeightsOrOne(g, i + 1))

\* lines 151-153: Winv * weightedR as rows of entries
CoaddRDense(g, n) ==
    [i \in 1..n |-> [j \in 1..n |-> CoaddREntry(g, i - 1, j - 1)]]

\* the diagonals of the matrix m that hold a nonzero entry
NonzeroOffsets(m) ==
    {c[2] - c[1] : c \in {d \in (1..Len(m)) \X (1..Len(m)) : ~IsZero(m[d[1]][d[2]])}}

\* the diagonal format of m with the diagonals offs
DiaOf(m, offs) ==
    dia_matrix([k \in 1..Len(offs) |->
                   [c \in 1..Len(m) |->
                       IF c - offs[k] \in 1..Len(m) THEN m[c - offs[k]][c]
                       ELSE RInt(0)]],
               offs, <<Len(m), Len(m)>>)

\* line 154: R.todia(), the nonzero diagonals in ascending order of offset
todia(m) == DiaOf(m, SortedSeq(NonzeroOffsets(m)))

\* Spectrum(wave, flux, weights, R, Rcsr) of lines 155-156
SpectrumOf(wave, flux, ivar, R) == Spectrum(wave, flux, ivar, R, tocsr(R))

\* lines 123-157: the coadd of the spectra g of one wavehash
CoaddOf(g) ==
    SpectrumOf(g[1].wave,
               [p \in 1..Len(g[1].ivar) |-> CoaddFlux(g, p)],
               [p \in 1..Len(g[1].ivar) |-> Weights(g, p)],
               todia(CoaddRDense(g, Len(g[1].ivar))))

\* the orders in which a set can be iterated
RECURSIVE Orderings(_)
Orderings(S) ==
    IF S = {} THEN {<<>>}
    ELSE UNION {{<<e>> \o o : o \in Orderings(S \ {e})} : e \in S}

\* compute_coadd (lines 116-160): the lists self.spectra can become; the set
\* of wavehashes is iterated in an order Python does not fix
compute_coadd(spectra) ==
    {[k \in 1..Len(o) |-> CoaddOf(Group(spectra, o[k]))] :
        o \in Orderings(Hashes(spectra))}

\* the lists of spectra handed to Target
SpectraLists ==
    UNION {[1..n -> SpectraWith({1})] : n \in 0..MaxSpec}

TgInit ==
    /\ tg_spectra \in SpectraLists
    /\ tg_coadd \in BOOLEAN
    /\ tg_pc = "construct"
    /\ tg_prev = <<>>

\* Target.__init__ (lines 109-114) with coadd=False
TargetInitPlain ==
    /\ tg_pc = "construct"
    /\ ~tg_coadd
    /\ tg_pc' = "ready"
    /\ UNCHANGED <<tg_spectra, tg_coadd, tg_prev, vars_fitz, vars_sp, vars_wg, vars_dt>>

\* Target.__init__ (lines 109-114) with coadd=True
TargetInitCoadd ==
    /\ tg_pc = "construct"
    /\ tg_coadd
    /\ tg_spectra' \in compute_coadd(tg_spectra)
    /\ tg_prev' = <<tg_spectra>>
    /\ tg_pc' = "ready"
    /\ UNCHANGED <<tg_coadd, vars_fitz, vars_sp, vars_wg, vars_dt>>

\* Target.compute_coadd called on the constructed target
TargetComputeCoadd ==
    /\ tg_pc = "ready"
    /\ tg_spectra' \in compute_coadd(tg_spectra)
    /\ tg_prev' = <<tg_spectra>>
    /\ UNCHANGED <<tg_coadd, tg_pc, vars_fitz, vars_sp, vars_wg, vars_dt>>

TgNext == TargetInitPlain \/ TargetInitCoadd \/ TargetComputeCoadd

(***************************************************************************)
(* DistTargets.wavegrids (targets.py 232-253) on the workers of one        *)
(* communicator, or on separate registries without a communicator.         *)
(* A dictionary is a function; None is <<>> and a present value v is <<v>>.*)
(***************************************************************************)
\* workers (ranks 0..NWorkers-1) and wavegrids() calls per worker
NWorkers == 2
MaxWgCalls == 2
Workers == 0..(NWorkers - 1)

\* a Target as the registry reads it, and a Spectrum reduced to the
\* attributes wavegrids reads
TargetOf(id, spectra) == [id |-> id, spectra |-> spectra]
GridOnly(w) == [wave |-> w, wavehash |-> WaveHash(w)]

\* The local target lists of the model.  The grids <<1,2,3,5,6>> and
\* <<1,2,4,5,6>> differ in the one sample the wavehash does not read.
LocalLists ==
    { <<>>,
      <<TargetOf(1, <<GridOnly(<<1, 2, 3, 5, 6>>)>>)>>,
      <<TargetOf(2, <<GridOnly(<<1, 2, 4, 5, 6>>), GridOnly(<<1, 2>>)>>)>>,
      <<TargetOf(3, <<GridOnly(<<1, 2>>)>>), TargetOf(4, <<GridOnly(<<1, 2, 3, 5, 6>>)>>)>> }

\* lines 237-238: the spectra of the targets, in loop order
RECURSIVE FlatSpectra(_)
FlatSpectra(targets) ==
    IF targets = <<>> THEN <<>>
    ELSE Head(targets).spectra \o FlatSpectra(Tail(targets))

\* lines 236-240: the first wave seen for every wavehash
FirstSeen(spectra) ==
    [h \in {spectra[k].wavehash : k \in 1..Len(spectra)} |->
        spectra[CHOOSE k \in 1..Len(spectra) :
                    /\ spectra[k].wavehash = h
                    /\ \A m \in 1..(k - 1) : spectra[m].wavehash # h].wave]
my_dwave(targets) == FirstSeen(FlatSpectra(targets))

\* lines 245-249: temp[r] is the dictionary of rank r; the first rank that
\* has a key gives its value
MergeGathered(temp) ==
    [h \in UNION {DOMAIN temp[r] : r \in Workers} |->
        temp[CHOOSE r \in Workers :
                 /\ h \in DOMAIN temp[r]
                 /\ \A q \in Workers : h \in DOMAIN temp[q] => r <= q][h]]

\* a slip: "if not self._dwave", true of an empty dictionary too
NotCachedFalsy(d) == IF d = <<>> THEN TRUE ELSE DOMAIN d[1] = {}

\* line 235: self._dwave is None
NotCached(d) == d = <<>>

WgInit ==
    /\ wg_comm \in BOOLEAN
    /\ wg_local \in [Workers -> LocalLists]
    /\ wg_dwave = [w \in Workers |-> <<>>]
    /\ wg_pc = [w \in Workers |-> "idle"]
    /\ wg_sent = [w \in Workers |-> <<>>]
    /\ wg_exch = [w \in Workers |-> <<>>]
    /\ wg_ret = [w \in Workers |-> <<>>]

\* the number of wavegrids() calls worker w has made and left
WgCalls(w) == Len(wg_ret[w])

\* wavegrids() with the mapping cached: line 235 false, line 253
WgCached(w) ==
    /\ wg_pc[w] = "idle"
    /\ WgCalls(w) < MaxWgCalls
    /\ ~NotCached(wg_dwave[w])
    /\ wg_ret' = [wg_ret EXCEPT ![w] = Append(@, wg_dwave[w][1])]
    /\ UNCHANGED <<wg_comm, wg_local, wg_dwave, wg_pc, wg_sent, wg_exch>>
    /\ UNCHANGED <<vars_fitz, vars_sp, vars_tg, vars_dt>>

\* wavegrids() without a communicator: lines 235-242, 251-253
WgLocal(w) ==
    /\ wg_pc[w] = "idle"
    /\ WgCalls(w) < MaxWgCalls
    /\ NotCached(wg_dwave[w])
    /\ ~wg_comm
    /\ wg_dwave' = [wg_dwave EXCEPT ![w] = <<my_dwave(wg_local[w])>>]
    /\ wg_ret' = [wg_ret EXCEPT ![w] = Append(@, my_dwave(wg_local[w]))]
    /\ UNCHANGED <<wg_comm, wg_local, wg_pc, wg_sent, wg_exch>>
    /\ UNCHANGED <<vars_fitz, vars_sp, vars_tg, vars_dt>>

\* wavegrids() with a communicator, up to the allgather: lines 235-244.
\* wg_sent[w] holds what w has handed to its allgather calls, wg_exch[w] the
\* number of the wavegrids() call that made each of them.
WgEnterGather(w) ==
    /\ wg_pc[w] = "idle"
    /\ WgCalls(w) < MaxWgCalls
    /\ NotCached(wg_dwave[w])
    /\ wg_comm
    /\ wg_sent' = [wg_sent EXCEPT ![w] = Append(@, my_dwave(wg_local[w]))]
    /\ wg_exch' = [wg_exch EXCEPT ![w] = Append(@, WgCalls(w) + 1)]
    /\ wg_pc' = [wg_pc EXCEPT ![w] = "allgather"]
    /\ UNCHANGED <<wg_comm, wg_local, wg_dwave, wg_ret>>
    /\ UNCHANGED <<vars_fitz, vars_sp, vars_tg, vars_dt>>

\* the allgather returns once every rank has made its matching call:
\* lines 244-253
WgLeaveGather(w) ==
    /\ wg_pc[w] = "allgather"
    /\ \A r \in Workers : Len(wg_sent[r]) >= Len(wg_sent[w])
    /\ wg_dwave' = [wg_dwave EXCEPT ![w] =
           <<MergeGathered([r \in Workers |-> wg_sent[r][Len(wg_sent[w])]])>>]
    /\ wg_ret' = [wg_ret EXCEPT ![w] =
           Append(@, MergeGathered([r \in Workers |-> wg_sent[r][Len(wg_sent[w])]]))]
    /\ wg_pc' = [wg_pc EXCEPT ![w] = "idle"]
    /\ UNCHANGED <<wg_comm, wg_local, wg_sent, wg_exch>>
    /\ UNCHANGED <<vars_fitz, vars_sp, vars_tg, vars_dt>>

WgNext ==
    \E w \in Workers :
        \/ WgCached(w)
        \/ WgLocal(w)
        \/ WgEnterGather(w)
        \/ WgLeaveGather(w)

(***************************************************************************)
(* distribute_targets and DistTargetsCopy.__init__ (targets.py 256-335),   *)
(* constructed on every worker of one communicator.                        *)
(***************************************************************************)
\* targets in the root's list, and spectra per target
MaxTargets == 2
MaxNSpec == 2

\* the sum of the weights wt of the ids in the list part
RECURSIVE Load(_, _)
Load(part, wt) ==
    IF part = <<>> THEN 0 ELSE wt[Head(part)] + Load(Tail(part), wt)

\* the ids in descending order of weight, equal weights in list order
RECURSIVE HeaviestFirst(_, _)
HeaviestFirst(ids, wt) ==
    IF ids = <<>> THEN <<>>
    ELSE LET k == CHOOSE k \in 1..Len(ids) :
                      /\ \A m \in 1..Len(ids) : wt[ids[m]] <= wt[ids[k]]
                      /\ \A m \in 1..(k - 1) : wt[ids[m]] < wt[ids[k]]
         IN  <<ids[k]>> \o
             HeaviestFirst(SubSeq(ids, 1, k - 1) \o SubSeq(ids, k + 1, Len(ids)), wt)

\* every id in turn goes to the partition of least load, the lowest rank
\* among equals
RECURSIVE AssignLeastLoaded(_, _, _)
AssignLeastLoaded(ids, wt, parts) ==
    IF ids = <<>> THEN parts
    ELSE LET r == CHOOSE r \in 1..Len(parts) :
                      \A q \in 1..Len(parts) :
                          \/ Load(parts[r], wt) < Load(parts[q], wt)
                          \/ Load(parts[r], wt) = Load(parts[q], wt) /\ r <= q
         IN  AssignLeastLoaded(Tail(ids), wt, [parts EXCEPT ![r] = Append(@, Head(ids))])

\* utils.distribute_work(nproc, ids, weights): nproc lists that partition
\* the ids with loads as equal as the greedy assignment makes them
distribute_work(nproc, ids, weights) ==
    AssignLeastLoaded(HeaviestFirst(ids, weights), weights, [r \in 1..nproc |-> <<>>])

\* distribute_targets (lines 256-282): weight = number of spectra
distribute_targets(targets, nproc) ==
    distribute_work(nproc,
                    [k \in 1..Len(targets) |-> targets[k].id],
                    [i \in {targets[k].id : k \in 1..Len(targets)} |->
                        Len(targets[CHOOSE k \in 1..Len(targets) :
                                        /\ targets[k].id = i
                                        /\ \A m \in (k + 1)..Len(targets) :
                                               targets[m].id # i].spectra)])

\* the target lists the root can hold: distinct ids in any order
FullLists ==
    UNION {{[k \in 1..n |-> TargetOf(ids[k], [m \in 1..cnt[k] |-> GridOnly(<<1, 2>>)])] :
               ids \in {f \in [1..n -> 1..MaxTargets] :
                           \A a, b \in 1..n : a # b => f[a] # f[b]},
               cnt \in [1..n -> 1..MaxNSpec]} :
           n \in 0..MaxTargets}

\* the targets argument of a worker: a list, or None
ListArg(l) == [kind |-> "list", list |-> l]
NoneArg == [kind |-> "None", list |-> <<>>]

\* The root holds the full list; every other worker passes the same list, an
\* empty list or None.  dt_sync: whether bcast returns on the root only once
\* every rank has made the matching call (MPI allows both).
DtInit ==
    /\ dt_root \in Workers
    /\ dt_sync \in BOOLEAN
    /\ \E full \in FullLists :
           dt_args \in {a \in [Workers -> {ListArg(full), ListArg(<<>>), NoneArg}] :
                           a[dt_root] = ListArg(full)}
    /\ dt_pc = [w \in Workers |-> "start"]
    /\ dt_entered = [w \in Workers |-> 0]
    /\ dt_bcasts = <<>>
    /\ dt_ids = [w \in Workers |-> <<>>]
    /\ dt_proc = [w \in Workers |-> <<>>]
    /\ dt_mine = [w \in Workers |-> <<>>]
    /\ dt_tbuf = [w \in Workers |-> <<>>]
    /\ dt_data = [w \in Workers |-> <<>>]
    /\ dt_k = [w \in Workers |-> 0]

\* lines 306-310: the sorted ids on the root, an empty list elsewhere
OwnIds(w) ==
    IF w = dt_root
    THEN SortedSeq({dt_args[w].list[k].id : k \in 1..Len(dt_args[w].list)})
    ELSE <<>>

\* lines 300-313, up to the call of comm.bcast for the id list
DtStart(w) ==
    /\ dt_pc[w] = "start"
    /\ dt_ids' = [dt_ids EXCEPT ![w] = OwnIds(w)]
    /\ dt_entered' = [dt_entered EXCEPT ![w] = @ + 1]
    /\ dt_bcasts' = IF w = dt_root THEN Append(dt_bcasts, OwnIds(w)) ELSE dt_bcasts
    /\ dt_pc' = [dt_pc EXCEPT ![w] = "bcast_ids"]
    /\ UNCHANGED <<dt_root, dt_sync, dt_args, dt_proc, dt_mine, dt_tbuf, dt_data, dt_k>>
    /\ UNCHANGED <<vars_fitz, vars_sp, vars_tg, vars_wg>>

\* the bcast call that worker w is in can return
BcastReady(w) ==
    IF w = dt_root
    THEN ~dt_sync \/ \A r \in Workers : dt_entered[r] >= dt_entered[w]
    ELSE Len(dt_bcasts) >= dt_entered[w]

\* line 333 and the return of the constructor: KeyError when an id of
\* _my_targets was never received
AfterLoop(w, mine, tbuf) ==
    IF \A k \in 1..Len(mine) : mine[k] \in DOMAIN tbuf
    THEN /\ dt_data' = [dt_data EXCEPT ![w] = [k \in 1..Len(mine) |-> tbuf[mine[k]]]]
         /\ dt_pc' = [dt_pc EXCEPT ![w] = "done"]
    ELSE /\ dt_data' = dt_data
         /\ dt_pc' = [dt_pc EXCEPT ![w] = "raised"]

\* lines 313-329: the id list arrives, the partition is computed from the
\* worker's own targets argument (TypeError when it is None) and the loop
\* over that argument begins
DtIdsReturn(w) ==
    /\ dt_pc[w] = "bcast_ids"
    /\ BcastReady(w)
    /\ dt_ids' = [dt_ids EXCEPT ![w] = dt_bcasts[dt_entered[w]]]
    /\ IF dt_args[w].kind = "None"
       THEN /\ dt_pc' = [dt_pc EXCEPT ![w] = "raised"]
            /\ UNCHANGED <<dt_proc, dt_mine, dt_data>>
       ELSE /\ dt_proc' = [dt_proc EXCEPT ![w] =
                   distribute_targets(dt_args[w].list, NWorkers)]
            /\ dt_mine' = [dt_mine EXCEPT ![w] =
                   distribute_targets(dt_args[w].list, NWorkers)[w + 1]]
            /\ IF dt_args[w].list = <<>>
               THEN AfterLoop(w, <<>>, <<>>)
               ELSE /\ dt_pc' = [dt_pc EXCEPT ![w] = "loop"]
                    /\ dt_data' = dt_data
    /\ UNCHANGED <<dt_root, dt_sync, dt_args, dt_entered, dt_bcasts, dt_tbuf, dt_k>>
    /\ UNCHANGED <<vars_fitz, vars_sp, vars_tg, vars_wg>>

\* lines 329-330: the next target of the worker's own list is handed to
\* comm.bcast; only the root's object is sent
DtLoopBcast(w) ==
    /\ dt_pc[w] = "loop"
    /\ dt_entered' = [dt_entered EXCEPT ![w] = @ + 1]
    /\ dt_bcasts' = IF w = dt_root
                    THEN Append(dt_bcasts, dt_args[w].list[dt_k[w] + 1])
                    ELSE dt_bcasts
    /\ dt_pc' = [dt_pc EXCEPT ![w] = "bcast_tg"]
    /\ UNCHANGED <<dt_root, dt_sync, dt_args, dt_ids, dt_proc, dt_mine, dt_tbuf, dt_data, dt_k>>
    /\ UNCHANGED <<vars_fitz, vars_sp, vars_tg, vars_wg>>

\* lines 331-332: tbuf after the object recv has arrived
Received(w, recv) ==
    IF recv.id \in Range(dt_mine[w])
    THEN [i \in DOMAIN dt_tbuf[w] \cup {recv.id} |->
             IF i = recv.id THEN recv ELSE dt_tbuf[w][i]]
    ELSE dt_tbuf[w]

\* lines 330-335: the bcast returns, the object is kept when its id is one
\* of _my_targets, and after the last target _my_data is built
DtLoopReturn(w) ==
    /\ dt_pc[w] = "bcast_tg"
    /\ BcastReady(w)
    /\ dt_tbuf' = [dt_tbuf EXCEPT ![w] = Received(w, dt_bcasts[dt_entered[w]])]
    /\ dt_k' = [dt_k EXCEPT ![w] = @ + 1]
    /\ IF dt_k[w] + 1 < Len(dt_args[w].list)
       THEN /\ dt_pc' = [dt_pc EXCEPT ![w] = "loop"]
            /\ dt_data' = dt_data
       ELSE AfterLoop(w, dt_mine[w], Received(w, dt_bcasts[dt_entered[w]]))
    /\ UNCHANGED <<dt_root, dt_sync, dt_args, dt_entered, dt_bcasts, dt_ids, dt_proc, dt_mine>>
    /\ UNCHANGED <<vars_fitz, vars_sp, vars_tg, vars_wg>>

DtNext ==
    \E w \in Workers :
        \/ DtStart(w)
        \/ DtIdsReturn(w)
        \/ DtLoopBcast(w)
        \/ DtLoopReturn(w)

(***************************************************************************)
(* Specifications: one per component, the others idle.                     *)
(***************************************************************************)
FmIdle == fm_x = <<>> /\ fm_ret = <<>> /\ fm_pc = "idle"
MfIdle == mf_x = <<>> /\ mf_y = <<>> /\ mf_ret = MinfitFail /\ mf_pc = "idle"

FzIdle ==
    /\ zchi2 = <<>> /\ redshifts = <<>> /\ nminima = 0 /\ order = <<>> /\ pos = 0
    /\ results = <<>> /\ fz_pc = "idle" /\ np_nonzero0d = "index0" /\ fz_exc = <<>>

SpIdle ==
    /\ spectrum = <<>> /\ sp_last = "idle" /\ sp_before = <<>>
    /\ sp_first = <<>> /\ sp_calls = 0
TgIdle == tg_spectra = <<>> /\ tg_coadd = FALSE /\ tg_pc = "idle" /\ tg_prev = <<>>

WgIdle ==
    /\ wg_comm = FALSE
    /\ wg_local = [w \in Workers |-> <<>>]
    /\ wg_dwave = [w \in Workers |-> <<>>]
    /\ wg_pc = [w \in Workers |-> "off"]
    /\ wg_sent = [w \in Workers |-> <<>>]
    /\ wg_exch = [w \in Workers |-> <<>>]
    /\ wg_ret = [w \in Workers |-> <<>>]
DtIdle ==
    /\ dt_root = 0 /\ dt_sync = FALSE /\ dt_bcasts = <<>>
    /\ dt_args = [w \in Workers |-> ListArg(<<>>)]
    /\ dt_pc = [w \in Workers |-> "off"]
    /\ dt_entered = [w \in Workers |-> 0]
    /\ dt_ids = [w \in Workers |-> <<>>]
    /\ dt_proc = [w \in Workers |-> <<>>]
    /\ dt_mine = [w \in Workers |-> <<>>]
    /\ dt_tbuf = [w \in Workers |-> <<>>]
    /\ dt_data = [w \in Workers |-> <<>>]
    /\ dt_k = [w \in Workers |-> 0]

FitzIdle == FmIdle /\ MfIdle /\ FzIdle
TargetsIdle == SpIdle /\ TgIdle /\ WgIdle /\ DtIdle

InitMinima == FmInit /\ MfIdle /\ FzIdle /\ TargetsIdle
InitMinfit == MfInit /\ FmIdle /\ FzIdle /\ TargetsIdle
Init == FzInit /\ FmIdle /\ MfIdle /\ TargetsIdle
InitSpectrum == SpInit /\ FitzIdle /\ TgIdle /\ WgIdle /\ DtIdle
InitCoadd == TgInit /\ FitzIdle /\ SpIdle /\ WgIdle /\ DtIdle
InitWavegrids == WgInit /\ FitzIdle /\ SpIdle /\ TgIdle /\ DtIdle
InitDist == DtInit /\ FitzIdle /\ SpIdle /\ TgIdle /\ WgIdle

\* find_minima alone
SpecMinima == InitMinima /\ [][FmCall]_vars
\* minfit alone
SpecMinfit == InitMinfit /\ [][MfCall]_vars
\* one Spectrum under sharedmem_pack / sharedmem_unpack
SpecSpectrum == InitSpectrum /\ [][SpNext]_vars
\* one Target under construction and compute_coadd
SpecCoadd == InitCoadd /\ [][TgNext]_vars
\* wavegrids() on the workers
SpecWavegrids == InitWavegrids /\ [][WgNext]_vars
\* DistTargetsCopy constructed on the workers
SpecDist == InitDist /\ [][DtNext]_vars
\* fitz
Next == FzNext
Spec == Init /\ [][Next]_vars

(***************************************************************************)
(* Claims about find_minima, checked under SpecMinima.                     *)
(***************************************************************************)
\* the rule of the specification, index by index
Qualifies(x, i) ==
    /\ (i = 0 \/ At(x, i) <= At(x, i - 1))
    /\ (i = Len(x) - 1 \/ At(x, i) <= At(x, i + 1))
IsFlat(x) == \A i \in 1..Len(x) : x[i] = x[1]

\* C3: for every non-empty x the set of the indices find_minima returns is
\* exactly the set of i with (i = 0 or x[i] <= x[i-1]) and (i = last or
\* x[i] <= x[i+1]); every index of a flat x is returned, and [1,1,1,2,2,2]
\* gives {0,1,2,4,5}.
C3_MinimaSet ==
    fm_pc = "done" =>
        /\ Range(fm_ret) = {i \in 0..(Len(fm_x) - 1) : Qualifies(fm_x, i)}
        /\ IsFlat(fm_x) => Range(fm_ret) = 0..(Len(fm_x) - 1)
        /\ fm_x = <<1, 1, 1, 2, 2, 2>> => Range(fm_ret) = {0, 1, 2, 4, 5}
C3_Witness ==
    /\ fm_pc = "done"
    /\ fm_x = <<1, 1, 1, 2, 2, 2>>
    /\ Range(fm_ret) = {0, 1, 2, 4, 5}

OnParabola(a, x0, y0) ==
    /\ mf_pc = "done"
    /\ Len(mf_x) >= 3
    /\ mf_y = Parabola(a, x0, y0, mf_x)
Recovers(a, x0, y0) ==
    /\ mf_ret.x0 = RInt(x0)
    /\ mf_ret.y0 = RInt(y0)
    /\ mf_ret.xerr.sgn = 1
    /\ RMul(mf_ret.xerr.sq, RInt(a)) = RInt(1)
Bracketed(x0) == SeqMin(mf_x) < x0 /\ x0 < SeqMax(mf_x)

\* C5 as stated: for three or more samples at distinct x on a parabola
\* y = a*(x-x0)^2 + y0 with a > 0 and y0 > 0, wherever the samples lie,
\* minfit returns x0, y0, an xerr with xerr^2 * a = 1, and a zero flag word.
C5_RecoversAnywhere ==
    \A a \in 1..MaxA, x0 \in MfVertices, y0 \in 1..MaxY0 :
        OnParabola(a, x0, y0) => Recovers(a, x0, y0) /\ mf_ret.zwarn = {}
\* C5 as amended: minfit returns x0, y0 and an xerr with xerr^2 * a = 1; the
\* flag word is zero exactly when x0 lies strictly between the smallest and
\* the largest sample position, and is BAD_MINFIT otherwise.
C5_RecoversBracketed ==
    \A a \in 1..MaxA, x0 \in MfVertices, y0 \in 1..MaxY0 :
        OnParabola(a, x0, y0) =>
            /\ Recovers(a, x0, y0)
            /\ mf_ret.zwarn = (IF Bracketed(x0) THEN {} ELSE {BAD_MINFIT})
\* a parabola sampled on one side of its vertex: recovered, and flagged
C5_Witness ==
    /\ OnParabola(2, -1, 1)
    /\ mf_x = <<0, 1, 3>>
    /\ Recovers(2, -1, 1)
    /\ mf_ret.zwarn = {BAD_MINFIT}

(***************************************************************************)
(* Claims about fitz, checked under Spec.                                  *)
(***************************************************************************)
Rows == 1..Len(results)
\* the coarse-grid redshift of the minimum row k was refined from
CoarseZ(k) == RInt(At(redshifts, results[k].imin))
\* the place in the loop of the minimum row k was refined from
OrderPos(k) == CHOOSE q \in 1..Len(order) : order[q] = results[k].imin
\* |c*(z - zref)/(1 + zref)| < 1000 km/s, for redshifts in units of 1/ZDen
Within1000(z, zref) ==
    MulLess(299792458, Abs(z.n * zref.d - zref.n * z.d),
            1000000, z.d * Abs(zref.d * ZDen + zref.n))

\* C1 as stated: no two rows of the returned result come from two coarse
\* minima whose coarse-grid redshifts are less than 1000 km/s apart.
C1_CoarsePairsApart ==
    fz_pc = "done" =>
        \A a \in Rows, b \in Rows :
            a # b => ~Within1000(CoarseZ(a), CoarseZ(b))
\* C1 as amended: a row of the result never comes from a coarse minimum
\* whose coarse-grid redshift is less than 1000 km/s from the redshift
\* stored in a row that was accepted before it.
C1_CoarseApartFromAccepted ==
    \A a \in Rows, b \in Rows :
        OrderPos(a) < OrderPos(b) => ~Within1000(CoarseZ(b), results[a].z)
\* a returned result with two rows whose coarse minima are less than
\* 1000 km/s apart
C1_Witness ==
    /\ fz_pc = "done"
    /\ Len(results) = 2
    /\ Within1000(CoarseZ(1), CoarseZ(2))

\* C2: a result that fitz returns holds at most nminima candidates (no
\* candidate is accepted once nminima are), in ascending order of chi2.
C2_BoundedAndSorted ==
    /\ Len(results) <= nminima
    /\ fz_pc = "done" =>
          \A k \in 1..(Len(results) - 1) : RLe(results[k].chi2, results[k + 1].chi2)
\* a returned result of nminima rows whose first row was accepted last,
\* with a coarse minimum left unvisited
C2_Witness ==
    /\ fz_pc = "done"
    /\ Len(results) = 2
    /\ nminima = 2
    /\ RLt(results[1].chi2, results[2].chi2)
    /\ OrderPos(1) > OrderPos(2)
    /\ pos < Len(order)

\* C10: whenever the redshift minfit returned lies outside the span of the
\* fine grid, the accepted candidate has BAD_MINFIT set and its z and chi2
\* are those of the fine-grid sample with the lowest chi2.
C10_FallbackIsScanMinimum ==
    \A a \in Rows :
        OutsideFine(results[a].zmin, results[a].zz) =>
            /\ BAD_MINFIT \in results[a].zwarn
            /\ results[a].z = RInt(At(results[a].zz, Argmin(results[a].zzchi2)))
            /\ results[a].chi2 = RInt(At(results[a].zzchi2, Argmin(results[a].zzchi2)))

(***************************************************************************)
(* Claims about Spectrum, checked under SpecSpectrum.                      *)
(***************************************************************************)
\* C6: under any sequence of sharedmem_pack and sharedmem_unpack calls,
\* _mpshared is true exactly when wave, flux, ivar, R and Rcsr are absent
\* (and all five are present when it is false); a pack of a packed spectrum
\* and an unpack of an unpacked one change nothing; and after an unpack the
\* five fields hold the values they had when the spectrum was first packed.
C6_TwoState ==
    sp_last # "idle" =>
        /\ spectrum._mpshared = (DataFields \cap DOMAIN spectrum = {})
        /\ spectrum._mpshared \/ DataFields \subseteq DOMAIN spectrum
        /\ (sp_last = "pack" /\ sp_before._mpshared) => spectrum = sp_before
        /\ (sp_last = "unpack" /\ ~sp_before._mpshared) => spectrum = sp_before
        /\ (sp_last = "unpack" /\ sp_first # <<>>) =>
               \A a \in DataFields : spectrum[a] = sp_first[1][a]

\* a spectrum with two stored resolution entries, unpacked from the packed
\* state by the last of at least three calls
C6_Witness ==
    /\ sp_last = "unpack"
    /\ sp_before._mpshared
    /\ sp_first # <<>>
    /\ sp_calls >= 3
    /\ Len(spectrum.Rcsr.data) = 2

(***************************************************************************)
(* Claims about Target.compute_coadd, checked under SpecCoadd.             *)
(***************************************************************************)
\* the places in a spectra list of the spectra of one wavehash
Members(list, h) == {k \in 1..Len(list) : list[k].wavehash = h}

RECURSIVE RTotal(_, _)
RTotal(f, S) ==
    IF S = {} THEN RInt(0)
    ELSE LET e == CHOOSE e \in S : TRUE IN RAdd(f[e], RTotal(f, S \ {e}))

\* pixel p of the coadd c of the spectra at the places M of the list old
PixelCoadded(c, old, M, p) ==
    LET sumivar == RTotal([k \in M |-> old[k].ivar[p]], M)
        sumflux == RTotal([k \in M |-> old[k].flux[p]], M)
        sumfluxivar == RTotal([k \in M |-> RMul(old[k].flux[p], old[k].ivar[p])], M)
    IN  /\ c.ivar[p] = sumivar
        /\ sumivar.n # 0 => RMul(c.flux[p], sumivar) = sumfluxivar
        /\ sumivar.n = 0 => RMul(c.flux[p], RInt(Cardinality(M))) = sumflux

\* C9: after compute_coadd (called directly or by the constructor with
\* coadd=True) the spectra list holds exactly one Spectrum per distinct
\* wavehash of the previous list, with that wavehash; per pixel its ivar is
\* the sum of the group's ivar, and its flux is sum(flux*ivar)/sum(ivar) when
\* that sum is nonzero and the plain mean of the group's fluxes when it is 0.
C9_CoaddPerWavehash ==
    tg_prev # <<>> =>
        /\ Len(tg_spectra) = Cardinality(Hashes(tg_prev[1]))
        /\ {tg_spectra[k].wavehash : k \in 1..Len(tg_spectra)} = Hashes(tg_prev[1])
        /\ \A k \in 1..Len(tg_spectra) :
               /\ tg_spectra[k].wavehash = WaveHash(tg_spectra[k].wave)
               /\ Len(tg_spectra[k].flux) = Len(tg_spectra[k].wave)
               /\ Len(tg_spectra[k].ivar) = Len(tg_spectra[k].wave)
               /\ \A p \in 1..Len(tg_spectra[k].wave) :
                      PixelCoadded(tg_spectra[k], tg_prev[1],
                                   Members(tg_prev[1], tg_spectra[k].wavehash), p)

\* two spectra of one grid coadded: at the first pixel no weight at all and
\* fluxes 1 and 0 (plain mean 1/2), at the second all the weight on flux 1
C9_Witness ==
    /\ tg_prev # <<>>
    /\ Len(tg_prev[1]) = 2
    /\ Len(tg_spectra) = 1
    /\ tg_spectra[1].flux = <<Rat(1, 2), RInt(1)>>
    /\ tg_spectra[1].ivar = <<RInt(0), RInt(1)>>

(***************************************************************************)
(* Claims about wavegrids, checked under SpecWavegrids.                    *)
(***************************************************************************)
\* the grids of worker w's own targets: every wavehash with the wave of the
\* first local spectrum that has it
LocalGrids(w) ==
    LET sp == FlatSpectra(wg_local[w])
    IN  [h \in {sp[k].wavehash : k \in 1..Len(sp)} |->
            sp[CHOOSE k \in 1..Len(sp) :
                   /\ sp[k].wavehash = h
                   /\ \A m \in 1..Len(sp) : sp[m].wavehash = h => k <= m].wave]

\* C7: on every worker the allgather is made at most once and only during
\* the first wavegrids() call (also when the merged mapping is empty), all
\* calls return one and the same mapping, and a registry without a
\* communicator makes no exchange and returns its local grids.
C7_ExchangeOnceThenCached ==
    \A w \in Workers :
        /\ Len(wg_sent[w]) <= 1
        /\ \A k \in 1..Len(wg_exch[w]) : wg_exch[w][k] = 1
        /\ \A a, b \in 1..Len(wg_ret[w]) : wg_ret[w][a] = wg_ret[w][b]
        /\ ~wg_comm =>
               /\ wg_sent[w] = <<>>
               /\ \A a \in 1..Len(wg_ret[w]) : wg_ret[w][a] = LocalGrids(w)

\* with a communicator, a worker has made two calls, exchanged once, and the
\* merged mapping it got back twice is empty
C7_Witness ==
    /\ wg_comm
    /\ \E w \in Workers :
           /\ Len(wg_ret[w]) = 2
           /\ Len(wg_sent[w]) = 1
           /\ DOMAIN wg_ret[w][2] = {}

(***************************************************************************)
(* Claims about DistTargetsCopy, checked under SpecDist.                   *)
(***************************************************************************)
\* every worker but the root passes an empty list of targets
RootOnly ==
    /\ \E w \in Workers : dt_pc[w] # "off"
    /\ \A w \in Workers \ {dt_root} : dt_args[w] = ListArg(<<>>)

\* the lists of local ids are pairwise disjoint, their union is the id list
\* that was broadcast, and _my_data holds the root's objects of those ids in
\* the same order
DistributedAsPromised ==
    /\ \A v, w \in Workers : v # w => Range(dt_mine[v]) \cap Range(dt_mine[w]) = {}
    /\ \A w \in Workers :
           \A a, b \in 1..Len(dt_mine[w]) : a # b => dt_mine[w][a] # dt_mine[w][b]
    /\ \A w \in Workers :
           UNION {Range(dt_mine[v]) : v \in Workers} = Range(dt_ids[w])
    /\ \A w \in Workers :
           /\ Len(dt_data[w]) = Len(dt_mine[w])
           /\ \A k \in 1..Len(dt_mine[w]) :
                  /\ dt_data[w][k].id = dt_mine[w][k]
                  /\ dt_data[w][k] \in Range(dt_args[dt_root].list)

\* C8: with the full target list on the root only, every constructor
\* returns (none raises, and as long as one has not returned some worker can
\* take a step), and once all have returned the local id lists are pairwise
\* disjoint, their union is all_target_ids, and local() holds the objects of
\* the local ids in order.
C8_RootOnlyConstruction ==
    RootOnly =>
        /\ \A w \in Workers : dt_pc[w] # "raised"
        /\ (\E w \in Workers : dt_pc[w] # "done") => ENABLED DtNext
        /\ (\A w \in Workers : dt_pc[w] = "done") => DistributedAsPromised


(***************************************************************************)
(* Claims about the candidate loop of fitz, checked under Spec.            *)
(***************************************************************************)
\* C11: every accepted candidate has Z_FITLIMIT set whenever the redshift of
\* the coarse minimum it was refined from, or its refined redshift, is below
\* redshifts[1] or above redshifts[-2].
C11_FitLimitNearEitherEdge ==
    \A a \in Rows :
        (NearGridEdge(CoarseZ(a), redshifts) \/ NearGridEdge(results[a].zmin, redshifts))
            => Z_FITLIMIT \in results[a].zwarn

\* the coefficient evaluation of the candidate (lines 192-210) raised
EvalRaised(c) == c.ev = "ValueError"
\* the call was left by an exception raised in the loop body
LeftInLoop == fz_exc # <<>> /\ fz_exc[1].line # 256

C13_MasksAtRefinedRedshift ==
    \A a \in Rows :
        /\ results[a].rebin_z = results[a].zmin
        /\ results[a].T_z = results[a].zmin
        /\ results[a].waveRF_z = results[a].zmin

\* C14: at every point of the candidate loop, any two accepted candidates a
\* and b, b accepted after a, have stored redshifts with
\* |c*(z_b - z_a)/(1 + z_a)| >= 1000 km/s; and the first coarse minimum
\* processed is skipped by neither de-duplication pass: once the loop has
\* moved past it, it is the origin of an accepted candidate.
C14_AcceptedApartByVelocity ==
    /\ \A a \in Rows, b \in Rows :
          OrderPos(a) < OrderPos(b) => ~Within1000(results[b].z, results[a].z)
    /\ pos >= 1 => \E a \in Rows : results[a].imin = At(order, 0)
\* two candidates accepted in the loop, the first from the first coarse
\* minimum processed, the second stored at a redshift off the coarse grid,
\* and a coarse minimum between them that was skipped
C14_Witness ==
    /\ fz_pc = "loop"
    /\ Len(results) = 2
    /\ results[1].imin = At(order, 0)
    /\ results[2].z # CoarseZ(2)
    /\ OrderPos(2) >= 3

====
